---------------------------- MODULE Spec2Model ----------------------------
(***************************************************************************)
(* Model of the Structured Export Pipeline of simon-seotool:               *)
(*   - validate_url and create_sitemap_from_dataframe                      *)
(*     (src/pages/5_XML_sitemap_creator.py)                                *)
(*   - process_api_response (src/pages/6_GEO_Search_Volume.py)             *)
(*   - make_dataforseo_request and the fetch button of main                *)
(*     (src/pages/6_GEO_Search_Volume.py)                                  *)
(*   - the upload handling of src/pages/4_semrush_refine.py                *)
(*                                                                         *)
(* Text is a sequence of one-character strings, so that trimming and URL   *)
(* splitting are computed character by character as the library does.      *)
(* A spreadsheet cell is a record [t, s]: t = "str" with the text s,       *)
(* t = "nan" for an empty cell (pandas NaN), t = "num" for a numeric cell. *)
(***************************************************************************)
EXTENDS Integers, Sequences, FiniteSets, TLC

VARIABLES
    \* validate_url called on its own
    v_url, v_ret,
    \* create_sitemap_from_dataframe
    rows, changefreq, priority, clock, pc, idx, current_date,
    valid_urls, skipped_urls, invalid_urls, urlset, xml_string,
    \* create_sitemap_from_dataframe called again: which call this is, and
    \* what the first call returned
    srun, first_sitemap,
    \* process_api_response
    response_data, location_code, language_code, gpc, tix, results, errors, df,
    \* process_api_response called again: which call this is, and what the
    \* first call returned
    run, first_df,
    \* sorted(monthly_data, ...) called on its own
    sort_in, sort_out,
    \* main of the GEO page: the fetch button
    keywords, fpc, clicks, calls, posts, post_data, http, fetched,
    process_calls, export_calls, download,
    \* the Semrush page: the uploaded sheet and what the page did with it
    sheet, spc, processed_columns, process_data_calls, semrush_export,
    semrush_error

vars == << v_url, v_ret,
           rows, changefreq, priority, clock, pc, idx, current_date,
           valid_urls, skipped_urls, invalid_urls, urlset, xml_string,
           srun, first_sitemap,
           response_data, location_code, language_code, gpc, tix, results,
           errors, df, run, first_df, sort_in, sort_out,
           keywords, fpc, clicks, calls, posts, post_data, http, fetched,
           process_calls, export_calls, download,
           sheet, spc, processed_columns, process_data_calls, semrush_export,
           semrush_error >>

validateVars == << v_url, v_ret >>

sitemapVars == << rows, changefreq, priority, clock, pc, idx, current_date,
                  valid_urls, skipped_urls, invalid_urls, urlset, xml_string,
                  srun, first_sitemap >>

geoVars == << response_data, location_code, language_code, gpc, tix, results,
              errors, df, run, first_df >>

sortVars == << sort_in, sort_out >>

fetchVars == << keywords, fpc, clicks, calls, posts, post_data, http, fetched,
                process_calls, export_calls, download >>

semrushVars == << sheet, spc, processed_columns, process_data_calls,
                  semrush_export, semrush_error >>

\* what the three pipelines above never touch
pageVars == << sortVars, fetchVars, semrushVars >>

----------------------------------------------------------------------------
(* Bounds of the model.                                                    *)

\* longest text handed to validate_url on its own
MaxUrlLen == 7
\* most rows of the uploaded column
MaxRows == 3
\* how far the wall clock may advance during one call
MaxClock == 1

----------------------------------------------------------------------------
(* Text helpers: str.strip, str.find, slicing.                             *)

Whitespace == {" ", "\t", "\r", "\n"}

SeqRange(s) == {s[k] : k \in 1..Len(s)}

RECURSIVE lstrip(_, _)
lstrip(s, chars) ==
    IF s # <<>> /\ Head(s) \in chars THEN lstrip(Tail(s), chars) ELSE s

RECURSIVE rstrip(_, _)
rstrip(s, chars) ==
    IF s # <<>> /\ s[Len(s)] \in chars
    THEN rstrip(SubSeq(s, 1, Len(s) - 1), chars)
    ELSE s

\* str.strip() on text
strip(s) == rstrip(lstrip(s, Whitespace), Whitespace)

\* url.strip() on a cell value: AttributeError when the value is not a str
strip_call(value) ==
    IF value.t = "str"
    THEN [raised |-> FALSE, val |-> strip(value.s)]
    ELSE [raised |-> TRUE, val |-> <<>>]

\* str.find(c, start) with 1-based positions; 0 when c does not occur
RECURSIVE find(_, _, _)
find(s, c, start) ==
    IF start > Len(s) THEN 0
    ELSE IF s[start] = c THEN start
    ELSE find(s, c, start + 1)

\* str.replace(b, "")
RECURSIVE remove(_, _)
remove(s, b) ==
    IF s = <<>> THEN <<>>
    ELSE IF Head(s) = b THEN remove(Tail(s), b)
    ELSE <<Head(s)>> \o remove(Tail(s), b)

----------------------------------------------------------------------------
(* urllib.parse.urlparse as called by validate_url, for the characters of  *)
(* the model.  Only the scheme and the netloc are read by the caller.      *)

Letters == {"h", "a", "b"}
Digits == {"1"}
\* urllib.parse.scheme_chars: letters, digits and "+-."
scheme_chars == Letters \cup Digits \cup {"+", "-", "."}
\* _WHATWG_C0_CONTROL_OR_SPACE, restricted to the characters of the model
C0_CONTROL_OR_SPACE == {" ", "\t", "\r", "\n"}
NetlocDelims == {"/", "?", "#"}

\* _splitnetloc(url, 2): the end of the netloc that starts at position 3
RECURSIVE netloc_end(_, _)
netloc_end(url, k) ==
    IF k > Len(url) \/ url[k] \in NetlocDelims THEN k - 1
    ELSE netloc_end(url, k + 1)

urlsplit(url0) ==
    LET \* url.lstrip(...), then _UNSAFE_URL_BYTES_TO_REMOVE (tab, carriage
        \* return, line feed) removed
        url1 == remove(remove(remove(lstrip(url0, C0_CONTROL_OR_SPACE),
                                     "\t"), "\r"), "\n")
        i == find(url1, ":", 1)
        hasScheme == /\ i > 1
                     /\ url1[1] \in Letters
                     /\ \A k \in 1..(i - 1) : url1[k] \in scheme_chars
        scheme == IF hasScheme THEN SubSeq(url1, 1, i - 1) ELSE <<>>
        url2 == IF hasScheme THEN SubSeq(url1, i + 1, Len(url1)) ELSE url1
        hasNetloc == Len(url2) >= 2 /\ url2[1] = "/" /\ url2[2] = "/"
        netloc == IF hasNetloc THEN SubSeq(url2, 3, netloc_end(url2, 3))
                  ELSE <<>>
        \* ValueError("Invalid IPv6 URL")
        invalidIPv6 == \/ ("[" \in SeqRange(netloc) /\ "]" \notin SeqRange(netloc))
                       \/ ("]" \in SeqRange(netloc) /\ "[" \notin SeqRange(netloc))
    IN  [raised |-> hasNetloc /\ invalidIPv6, scheme |-> scheme, netloc |-> netloc]

urlparse(url) == urlsplit(url)

----------------------------------------------------------------------------
(* validate_url (5_XML_sitemap_creator.py:15-29).                          *)

\* the body of the try block: may raise
validate_url_try(url) ==
    LET st == strip_call(url) IN
    IF st.raised THEN [raised |-> TRUE, val |-> FALSE]
    ELSE LET result == urlparse(st.val) IN
         IF result.raised THEN [raised |-> TRUE, val |-> FALSE]
         ELSE [raised |-> FALSE,
               val |-> (result.scheme # <<>> /\ result.netloc # <<>>)]

\* validate_url without the try/except around its body
validate_url_unguarded(url) == validate_url_try(url)

\* validate_url that forgets to trim
validate_url_nostrip(url) ==
    IF url.t # "str" THEN [raised |-> FALSE, val |-> FALSE]
    ELSE LET result == urlparse(url.s) IN
         IF result.raised THEN [raised |-> FALSE, val |-> FALSE]
         ELSE [raised |-> FALSE,
               val |-> (result.scheme # <<>> /\ result.netloc # <<>>)]

\* try: ... except: return False
validate_url(url) ==
    LET r == validate_url_try(url) IN
    IF r.raised THEN [raised |-> FALSE, val |-> FALSE] ELSE r


----------------------------------------------------------------------------
(* States in which a pipeline is not running.                              *)

NoCell == [t |-> "nan", s |-> <<>>]
NoReturn == [called |-> FALSE, raised |-> FALSE, val |-> FALSE]
NoElement == [tag |-> "none", attrib |-> <<>>, children |-> <<>>]
NoXml == [written |-> FALSE, declaration |-> "", root |-> NoElement]
NoOutcome == [returned |-> FALSE, entries |-> <<>>, valid_urls |-> 0,
              skipped_urls |-> 0, invalid_urls |-> <<>>]

ValidateIdle ==
    /\ v_url = NoCell
    /\ v_ret = NoReturn

SitemapIdle ==
    /\ rows = <<>>
    /\ changefreq = "weekly"
    /\ priority = "0.8"
    /\ clock = 0
    /\ pc = "off"
    /\ idx = 0
    /\ current_date = ""
    /\ valid_urls = 0
    /\ skipped_urls = 0
    /\ invalid_urls = <<>>
    /\ urlset = NoElement
    /\ xml_string = NoXml
    /\ srun = 0
    /\ first_sitemap = NoOutcome

----------------------------------------------------------------------------
(* validate_url called on its own, on any cell value.                      *)

ValidateChars == {"h", ":", "/", " "}

SeqsUpTo(S, n) == UNION {[1..k -> S] : k \in 0..n}

\* texts with a bracket, a tab, a digit, a query
U_BRACKET == <<"h", ":", "/", "/", "[">>
U_BRACKET_NOSCHEME == <<"/", "/", "[">>
U_TAB == <<"\t", "h", "\t", ":", "/", "/", "h", "\t">>
U_DIGIT_FIRST == <<"1", "h", ":", "/", "/", "h">>
U_DIGIT == <<"h", "1", ":", "/", "/", "h">>
U_QUERY == <<"h", ":", "/", "/", "?", "h">>
U_AFTER_QUERY == <<"h", ":", "/", "/", "h", "?", "[">>
\* a carriage return inside the text
U_CR == <<"h", ":", "/", "/", "a", "\r", "b">>

ValidateTexts == SeqsUpTo(ValidateChars, MaxUrlLen)

ValidateOtherInputs ==
    {[t |-> "str", s |-> s] :
        s \in {U_BRACKET, U_BRACKET_NOSCHEME, U_TAB, U_DIGIT_FIRST, U_DIGIT,
               U_QUERY, U_AFTER_QUERY, U_CR}}
        \cup {[t |-> "nan", s |-> <<>>], [t |-> "num", s |-> <<>>]}

CallValidate ==
    /\ ~v_ret.called
    /\ LET r == validate_url(v_url) IN
       v_ret' = [called |-> TRUE, raised |-> r.raised, val |-> r.val]
    /\ UNCHANGED << v_url, sitemapVars, geoVars,
                    pageVars >>

----------------------------------------------------------------------------
(* create_sitemap_from_dataframe (5_XML_sitemap_creator.py:31-99).         *)

U_A == <<"h", ":", "/", "/", "a">>
U_A_PAD == <<" ", "h", ":", "/", "/", "a", " ", "\t">>
U_EMPTY == <<>>
U_B == <<"h", ":", "/", "/", "b", "&">>
U_NOSCHEME == <<"a", "/", "b">>
U_BLANK == <<" ", " ">>

\* the cells a spreadsheet column can hold
RowValues ==
    {[t |-> "str", s |-> s] :
        s \in {U_A, U_A_PAD, U_B, U_NOSCHEME, U_BRACKET, U_EMPTY, U_BLANK,
               U_CR}}
        \cup {[t |-> "nan", s |-> <<>>], [t |-> "num", s |-> <<>>]}

\* (changefreq, priority) as passed by main: a selectbox entry and str(slider)
SitemapSettings == {<<"weekly", "0.8">>, <<"daily", "0.5">>}

\* datetime.now().astimezone().isoformat(timespec='seconds')
isoformat(t) == "2026-01-01T00:00:0" \o ToString(t) \o "+00:00"

\* a guard that also passes over blank text without recording it
is_skipped_cell_or_blank(url_str) ==
    url_str.t = "nan" \/ url_str.t # "str" \/ strip(url_str.s) = <<>>

\* pd.isna(url_str) or not isinstance(url_str, str)
is_skipped_cell(url_str) == url_str.t = "nan" \/ url_str.t # "str"

Leaf(tag, text) == [tag |-> tag, text |-> text]

\* a <url> element whose lastmod re-reads the clock for every row
url_element_now(loc) ==
    [tag |-> "url",
     children |-> << Leaf("loc", loc), Leaf("lastmod", isoformat(clock)),
                     Leaf("changefreq", changefreq),
                     Leaf("priority", priority) >>]

\* a <url> element whose changefreq and priority come in the other order
url_element_swapped(loc) ==
    [tag |-> "url",
     children |-> << Leaf("loc", loc), Leaf("lastmod", current_date),
                     Leaf("priority", priority),
                     Leaf("changefreq", changefreq) >>]

\* lines 72-84: the <url> element and its four children
url_element(loc) ==
    [tag |-> "url",
     children |-> << Leaf("loc", loc), Leaf("lastmod", current_date),
                     Leaf("changefreq", changefreq),
                     Leaf("priority", priority) >>]

\* a <url> element left out when its loc is already in the document
SubElement_unique(parent, element) ==
    IF \E k \in 1..Len(parent.children) :
           parent.children[k].children[1].text = element.children[1].text
    THEN parent
    ELSE [parent EXCEPT !.children = Append(@, element)]

\* an element that takes the place of the entries before it
SubElement_replacing(parent, element) ==
    [parent EXCEPT !.children = <<element>>]

\* ET.SubElement(urlset, "url") with its children: appended last
SubElement(parent, element) ==
    [parent EXCEPT !.children = Append(@, element)]

\* xml.etree.ElementTree._escape_cdata
RECURSIVE escape_cdata(_)
escape_cdata(text) ==
    IF text = <<>> THEN <<>>
    ELSE (CASE Head(text) = "&" -> <<"&", "a", "m", "p", ";">>
            [] Head(text) = "<" -> <<"&", "l", "t", ";">>
            [] Head(text) = ">" -> <<"&", "g", "t", ";">>
            [] OTHER -> <<Head(text)>>) \o escape_cdata(Tail(text))

\* tree.write(xml_buffer, encoding='utf-8', xml_declaration=True)
serialize_url(u) ==
    [tag |-> u.tag,
     children |-> << Leaf("loc", escape_cdata(u.children[1].text)),
                     u.children[2], u.children[3], u.children[4] >>]

tree_write(root) ==
    [written |-> TRUE,
     declaration |-> "<?xml version='1.0' encoding='utf-8'?>",
     root |-> [tag |-> root.tag, attrib |-> root.attrib,
               children |-> [k \in 1..Len(root.children) |->
                                serialize_url(root.children[k])]]]

urlset_attributes ==
    << <<"xmlns", "http://www.sitemaps.org/schemas/sitemap/0.9">>,
       <<"xmlns:xhtml", "http://www.w3.org/1999/xhtml">> >>

\* lines 43-57: the column, the root element, the timestamp, the counters
SitemapStart ==
    /\ pc = "start"
    /\ urlset' = [tag |-> "urlset", attrib |-> urlset_attributes,
                  children |-> <<>>]
    /\ current_date' = isoformat(clock)
    /\ valid_urls' = 0
    /\ skipped_urls' = 0
    /\ invalid_urls' = <<>>
    /\ idx' = 1
    /\ pc' = "loop"
    /\ UNCHANGED << srun, first_sitemap, rows, changefreq, priority, clock, xml_string,
                    validateVars, geoVars,
                    pageVars >>

\* lines 60-86: one iteration of the loop over the column
SitemapRow ==
    /\ pc = "loop"
    /\ idx <= Len(rows)
    /\ LET url_str == rows[idx]
           url_cleaned == strip(url_str.s)
           v == validate_url([t |-> "str", s |-> url_cleaned])
       IN  IF is_skipped_cell(url_str)
           THEN /\ skipped_urls' = skipped_urls + 1
                /\ idx' = idx + 1
                /\ UNCHANGED << pc, invalid_urls, urlset, valid_urls >>
           ELSE IF v.raised
           THEN /\ pc' = "raised"
                /\ UNCHANGED << idx, skipped_urls, invalid_urls, urlset,
                                valid_urls >>
           ELSE IF ~v.val
           THEN /\ invalid_urls' = Append(invalid_urls, url_str.s)
                /\ skipped_urls' = skipped_urls + 1
                /\ idx' = idx + 1
                /\ UNCHANGED << pc, urlset, valid_urls >>
           ELSE /\ urlset' = SubElement(urlset, url_element(url_cleaned))
                /\ valid_urls' = valid_urls + 1
                /\ idx' = idx + 1
                /\ UNCHANGED << pc, skipped_urls, invalid_urls >>
    /\ UNCHANGED << srun, first_sitemap, rows, changefreq, priority, clock, current_date,
                    xml_string, validateVars, geoVars,
                    pageVars >>

\* lines 88-99: serialise the tree and return
SitemapWrite ==
    /\ pc = "loop"
    /\ idx > Len(rows)
    /\ xml_string' = tree_write(urlset)
    /\ pc' = "done"
    /\ UNCHANGED << srun, first_sitemap, rows, changefreq, priority, clock, idx, current_date,
                    valid_urls, skipped_urls, invalid_urls, urlset,
                    validateVars, geoVars,
                    pageVars >>

\* what the call returned, the timestamps left out: the (loc, changefreq,
\* priority) of the entries of xml_string, the two counts and the samples
sitemap_outcome ==
    [returned |-> TRUE,
     entries |-> [k \in 1..Len(xml_string.root.children) |->
                     LET u == xml_string.root.children[k]
                     IN  << u.children[1].text, u.children[3].text,
                            u.children[4].text >>],
     valid_urls |-> valid_urls,
     skipped_urls |-> skipped_urls,
     invalid_urls |-> invalid_urls]

\* create_sitemap_from_dataframe is called a second time with the same
\* arguments; what the first call left behind is still there
SitemapRerun ==
    /\ pc = "done"
    /\ srun = 1
    /\ srun' = 2
    /\ first_sitemap' = sitemap_outcome
    /\ pc' = "start"
    /\ UNCHANGED << rows, changefreq, priority, clock, idx, current_date,
                    valid_urls, skipped_urls, invalid_urls, urlset,
                    xml_string, validateVars, geoVars, pageVars >>

\* the wall clock advances while the call runs
Tick ==
    /\ pc \in {"start", "loop"}
    /\ clock < MaxClock
    /\ clock' = clock + 1
    /\ UNCHANGED << srun, first_sitemap, rows, changefreq, priority, pc, idx, current_date,
                    valid_urls, skipped_urls, invalid_urls, urlset,
                    xml_string, validateVars, geoVars,
                    pageVars >>

----------------------------------------------------------------------------
(* process_api_response (6_GEO_Search_Volume.py:59-140).                   *)
(*                                                                         *)
(* A Python dict is a sequence of <<key, value>> pairs in insertion order. *)
(* 'Change %' is held in hundredths of a percent (5000 is 50.0).           *)

\* further bounds: monthly records of the single detailed item, tasks of a
\* response, items of a response
MaxRecords == 3
MaxTasks == 2
MaxItems == 2

SuccessCode == 20000

dict_has(d, k) == \E i \in 1..Len(d) : d[i][1] = k

dict_get(d, k) == d[CHOOSE i \in 1..Len(d) : d[i][1] = k][2]

\* an assignment that leaves the value of a known key alone
dict_set_first(d, k, v) ==
    IF dict_has(d, k) THEN d ELSE Append(d, <<k, v>>)

\* d[k] = v: a new key goes last, a known key keeps its place
dict_set(d, k, v) ==
    IF dict_has(d, k)
    THEN [i \in 1..Len(d) |-> IF d[i][1] = k THEN <<k, v>> ELSE d[i]]
    ELSE Append(d, <<k, v>>)

\* lines 67-75
location_name(code) ==
    CASE code = 2840 -> "United States"
      [] code = 2826 -> "United Kingdom"
      [] code = 2250 -> "France"
      [] code = 2276 -> "Germany"
      [] code = 2724 -> "Spain"
      [] code = 2380 -> "Italy"
      [] code = 2392 -> "Japan"
      [] OTHER -> ToString(code)

\* lines 77-84
language_name(code) ==
    CASE code = "en" -> "English"
      [] code = "fr" -> "French"
      [] code = "de" -> "German"
      [] code = "es" -> "Spanish"
      [] code = "it" -> "Italian"
      [] code = "ja" -> "Japanese"
      [] OTHER -> code

\* the sort key of line 104, compared as Python compares tuples
key_lt(a, b) ==
    a.year < b.year \/ (a.year = b.year /\ a.month < b.month)

\* x put behind every record whose key is not smaller than its own
sorted_insert(s, x) ==
    LET n == Cardinality({i \in 1..Len(s) : ~key_lt(s[i], x)})
    IN  SubSeq(s, 1, n) \o <<x>> \o SubSeq(s, n + 1, Len(s))

\* the months in ascending order: reverse=True forgotten
RECURSIVE sorted_ascending(_)
sorted_ascending(l) ==
    IF l = <<>> THEN <<>>
    ELSE LET s == sorted_ascending(SubSeq(l, 1, Len(l) - 1))
             x == l[Len(l)]
             n == Cardinality({i \in 1..Len(s) : ~key_lt(x, s[i])})
         IN  SubSeq(s, 1, n) \o <<x>> \o SubSeq(s, n + 1, Len(s))

RECURSIVE Reverse(_)
Reverse(l) == IF l = <<>> THEN <<>> ELSE Append(Reverse(Tail(l)), Head(l))

\* the list sorted in ascending order and then turned around: records of the
\* same month change places
sorted_then_reversed(l) == Reverse(sorted_ascending(l))

\* sorted(monthly_data, key=(year, month), reverse=True): stable, descending
RECURSIVE sorted_reverse(_)
sorted_reverse(l) ==
    IF l = <<>> THEN <<>>
    ELSE sorted_insert(sorted_reverse(SubSeq(l, 1, Len(l) - 1)), l[Len(l)])

\* lines 103-105 on their own
CallSorted ==
    /\ ~sort_out.called
    /\ sort_out' = [called |-> TRUE, val |-> sorted_reverse(sort_in)]
    /\ UNCHANGED << sort_in, validateVars, sitemapVars, geoVars, fetchVars,
                    semrushVars >>

\* round(n / d * 100, 2) in hundredths, n / d a ratio: to the nearest
\* hundredth, a tie to the even one
round2(n, d) ==
    LET num == n * 10000
        q == num \div d
        r == num - q * d
    IN  IF 2 * r < d THEN q
        ELSE IF 2 * r > d THEN q + 1
        ELSE IF q % 2 = 0 THEN q ELSE q + 1

\* the percentage taken relative to the latest volume instead of the oldest
change_percent_swapped(latest_volume, oldest_volume) ==
    IF latest_volume > 0
    THEN round2(latest_volume - oldest_volume, latest_volume)
    ELSE 0

\* lines 114-118
change_percent(latest_volume, oldest_volume) ==
    IF oldest_volume > 0
    THEN round2(latest_volume - oldest_volume, oldest_volume)
    ELSE 0

\* f"{month:02d}/{year}"
month_header(year, month) ==
    (IF month >= 0 /\ month < 10 THEN "0" \o ToString(month)
     ELSE ToString(month)) \o "/" \o ToString(year)

\* lines 123-130: one month column per record, in the sorted order
RECURSIVE add_monthly_columns(_, _)
add_monthly_columns(row_data, monthly_data) ==
    IF monthly_data = <<>> THEN row_data
    ELSE LET month_data == Head(monthly_data)
         IN  add_monthly_columns(
                 dict_set(row_data,
                          month_header(month_data.year, month_data.month),
                          month_data.ai_search_volume),
                 Tail(monthly_data))

\* item.get('ai_monthly_searches', [])
monthly_of(item) ==
    IF item.has_monthly THEN item.ai_monthly_searches ELSE <<>>

\* the latest volume taken from the unsorted list
latest_volume_unsorted(item) ==
    IF monthly_of(item) # <<>>
    THEN monthly_of(item)[1].ai_search_volume
    ELSE IF item.has_volume THEN item.ai_search_volume ELSE 0

\* lines 100-109 and 133: the value of 'Latest Month Volume'
latest_volume_of(item) ==
    IF monthly_of(item) # <<>>
    THEN sorted_reverse(monthly_of(item))[1].ai_search_volume
    ELSE IF item.has_volume THEN item.ai_search_volume ELSE 0

\* a row that takes its month columns before the two computed ones
process_item_months_first(item) ==
    LET base == << <<"Keyword", item.keyword>>,
                   <<"Language", language_name(language_code)>>,
                   <<"Country", location_name(location_code)>> >>
        monthly_data == sorted_reverse(monthly_of(item))
    IN  add_monthly_columns(base, monthly_data)
            \o << <<"Latest Month Volume", latest_volume_of(item)>>,
                  <<"Change %", 0>> >>

\* lines 92-136: the row of one item
process_item(item) ==
    LET base == << <<"Keyword", item.keyword>>,
                   <<"Language", language_name(language_code)>>,
                   <<"Country", location_name(location_code)>> >>
        monthly_data == sorted_reverse(monthly_of(item))
        latest_volume == latest_volume_of(item)
    IN  IF monthly_of(item) # <<>>
        THEN add_monthly_columns(
                 base \o << <<"Latest Month Volume", latest_volume>>,
                            <<"Change %",
                              IF Len(monthly_data) > 1
                              THEN change_percent(
                                     latest_volume,
                                     monthly_data[Len(monthly_data)].ai_search_volume)
                              ELSE 0>> >>,
                 monthly_data)
        ELSE base \o << <<"Latest Month Volume", latest_volume>>,
                        <<"Change %", 0>> >>

RECURSIVE process_items(_)
process_items(items) ==
    IF items = <<>> THEN <<>>
    ELSE <<process_item(Head(items))>> \o process_items(Tail(items))

\* lines 89-136: the rows of one successful task
RECURSIVE process_result(_)
process_result(result) ==
    IF result = <<>> THEN <<>>
    ELSE (IF Head(result).has_items THEN process_items(Head(result).items)
          ELSE <<>>) \o process_result(Tail(result))

\* the status code left unchecked
task_has_result(task) == task.has_result

\* line 88
task_succeeded(task) == task.status_code = SuccessCode /\ task.has_result

\* the list sorted where it stands, as list.sort() does
list_after_sort_in_place(l) == sorted_reverse(l)

\* what sorted(...) leaves in the list it is given: sorted builds a new list
list_after_sorted(l) == l

\* the task as process_api_response leaves it: the monthly list of every
\* item of a processed task has been handed to sorted(...)
task_after(task) ==
    IF task_succeeded(task)
    THEN [task EXCEPT !.result =
            [r \in 1..Len(task.result) |->
                IF task.result[r].has_items
                THEN [task.result[r] EXCEPT !.items =
                        [i \in 1..Len(task.result[r].items) |->
                            LET item == task.result[r].items[i]
                            IN  IF monthly_of(item) # <<>>
                                THEN [item EXCEPT !.ai_monthly_searches =
                                         list_after_sorted(@)]
                                ELSE item]]
                ELSE task.result[r]]]
    ELSE task

\* st.error(f"Task error - Status: ..., Message: ...") of line 138
task_error(task) ==
    [status |-> task.status_code, message |-> task.status_message]

NaN == [nan |-> TRUE, val |-> 0]

\* the keys of d that cols does not hold yet, appended in d's order
RECURSIVE union_keys(_, _)
union_keys(cols, d) ==
    IF d = <<>> THEN cols
    ELSE union_keys(IF \E i \in 1..Len(cols) : cols[i] = Head(d)[1]
                    THEN cols ELSE Append(cols, Head(d)[1]),
                    Tail(d))

\* the columns of pd.DataFrame(list of dicts): every key, by first appearance
RECURSIVE frame_columns(_)
frame_columns(rs) ==
    IF rs = <<>> THEN <<>>
    ELSE union_keys(frame_columns(SubSeq(rs, 1, Len(rs) - 1)), rs[Len(rs)])

\* a frame whose missing cells are filled with 0
frame_cell_zero(d, col) ==
    IF dict_has(d, col) THEN [nan |-> FALSE, val |-> dict_get(d, col)]
    ELSE [nan |-> FALSE, val |-> 0]

\* the cell of row d under column col: NaN when the dict lacks the key
frame_cell(d, col) ==
    IF dict_has(d, col) THEN [nan |-> FALSE, val |-> dict_get(d, col)]
    ELSE NaN

NoFrame == [none |-> TRUE, columns |-> <<>>, data |-> <<>>]

\* pd.DataFrame(results)
DataFrame(rs) ==
    LET cols == frame_columns(rs)
    IN  [none |-> FALSE,
         columns |-> cols,
         data |-> [r \in 1..Len(rs) |->
                      [c \in 1..Len(cols) |-> frame_cell(rs[r], cols[c])]]]

NoResponse == [present |-> FALSE, has_tasks |-> FALSE, tasks |-> <<>>]

GeoIdle ==
    /\ response_data = NoResponse
    /\ location_code = 2840
    /\ language_code = "en"
    /\ gpc = "off"
    /\ tix = 0
    /\ results = <<>>
    /\ errors = <<>>
    /\ df = NoFrame
    /\ run = 0
    /\ first_df = NoFrame

NoSort == [called |-> FALSE, val |-> <<>>]

SortIdle ==
    /\ sort_in = <<>>
    /\ sort_out = NoSort

\* a results list that still holds the rows of the call before
kept_results(previous) == previous

\* line 86: results = []
new_results(previous) == <<>>

\* lines 63-86: the guard on the response, then results = []
GeoStart ==
    /\ gpc = "start"
    /\ IF ~response_data.present \/ ~response_data.has_tasks
       THEN /\ gpc' = "done"
            /\ df' = NoFrame
            /\ UNCHANGED << tix, results >>
       ELSE /\ gpc' = "tasks"
            /\ tix' = 1
            /\ results' = new_results(results)
            /\ UNCHANGED df
    /\ UNCHANGED << response_data, location_code, language_code, errors,
                    run, first_df, validateVars, sitemapVars,
                    pageVars >>

\* lines 87-138: one task of the response
GeoTask ==
    /\ gpc = "tasks"
    /\ tix <= Len(response_data.tasks)
    /\ LET task == response_data.tasks[tix]
       IN  IF task_succeeded(task)
           THEN /\ results' = results \o process_result(task.result)
                /\ UNCHANGED errors
           ELSE /\ errors' = Append(errors, task_error(task))
                /\ UNCHANGED results
    /\ response_data' = [response_data EXCEPT
                            !.tasks[tix] = task_after(response_data.tasks[tix])]
    /\ tix' = tix + 1
    /\ UNCHANGED << location_code, language_code, gpc, df,
                    run, first_df, validateVars, sitemapVars,
                    pageVars >>

\* line 140
GeoReturn ==
    /\ gpc = "tasks"
    /\ tix > Len(response_data.tasks)
    /\ df' = IF results # <<>> THEN DataFrame(results) ELSE NoFrame
    /\ gpc' = "done"
    /\ UNCHANGED << response_data, location_code, language_code, tix, results,
                    errors, run, first_df, validateVars, sitemapVars,
                    pageVars >>

\* process_api_response is called a second time with the same arguments, on
\* a page drawn afresh; what the first call left behind is still there
GeoRerun ==
    /\ gpc = "done"
    /\ run = 1
    /\ run' = 2
    /\ first_df' = df
    /\ gpc' = "start"
    /\ errors' = <<>>
    /\ UNCHANGED << response_data, location_code, language_code, tix, results,
                    df, validateVars, sitemapVars,
                    pageVars >>

----------------------------------------------------------------------------
(* The responses the model draws.                                          *)

YearMonths == {<<2023, 12>>, <<2024, 1>>, <<2024, 2>>, <<2024, 3>>}
Volumes == {0, 100, 150}

MonthlyRecord(y, m, v) == [year |-> y, month |-> m, ai_search_volume |-> v]

MonthlyRecords == {MonthlyRecord(ym[1], ym[2], v) : ym \in YearMonths, v \in Volumes}

Item(kw, hasMonthly, monthly, hasVolume, volume) ==
    [keyword |-> kw, has_monthly |-> hasMonthly,
     ai_monthly_searches |-> monthly, has_volume |-> hasVolume,
     ai_search_volume |-> volume]

\* the items of the batches: months that overlap, a year boundary, an empty
\* and an absent monthly list
BatchItems ==
    { Item("A", TRUE, << MonthlyRecord(2024, 1, 100), MonthlyRecord(2024, 2, 0) >>,
           TRUE, 0),
      Item("B", TRUE, << MonthlyRecord(2024, 3, 100), MonthlyRecord(2024, 2, 150) >>,
           TRUE, 150),
      Item("C", TRUE, << MonthlyRecord(2023, 12, 0) >>, FALSE, 0),
      Item("E", TRUE, <<>>, TRUE, 100),
      Item("N", FALSE, <<>>, FALSE, 0) }

\* a task: failed or successful with n items, successful without 'result',
\* successful with a result that has no 'items'
TaskKinds ==
    {[kind |-> k, n |-> 0] : k \in {"noresult", "noitems"}}
        \cup {[kind |-> k, n |-> n] : k \in {"fail", "ok"}, n \in 0..MaxItems}

RECURSIVE TotalItems(_)
TotalItems(shape) ==
    IF shape = <<>> THEN 0 ELSE Head(shape).n + TotalItems(Tail(shape))

Shapes == {sh \in SeqsUpTo(TaskKinds, MaxTasks) : TotalItems(sh) <= MaxItems}

Task(code, message, hasResult, result) ==
    [status_code |-> code, status_message |-> message,
     has_result |-> hasResult, result |-> result]

BuildTask(kind, items) ==
    CASE kind.kind = "fail" /\ kind.n = 0 ->
            Task(40501, "Payment Required", FALSE, <<>>)
      [] kind.kind = "fail" /\ kind.n > 0 ->
            Task(40501, "Payment Required", TRUE,
                 << [has_items |-> TRUE, items |-> items] >>)
      [] kind.kind = "noresult" -> Task(SuccessCode, "Ok.", FALSE, <<>>)
      [] kind.kind = "noitems" ->
            Task(SuccessCode, "Ok.", TRUE, << [has_items |-> FALSE, items |-> <<>>] >>)
      [] OTHER ->
            Task(SuccessCode, "Ok.", TRUE, << [has_items |-> TRUE, items |-> items] >>)

\* the tasks of a shape, the items handed out in order
BuildTasks(shape, its) ==
    [j \in 1..Len(shape) |->
        LET before == TotalItems(SubSeq(shape, 1, j - 1))
        IN  BuildTask(shape[j], SubSeq(its, before + 1, before + shape[j].n))]

Response(tasks) == [present |-> TRUE, has_tasks |-> TRUE, tasks |-> tasks]

\* one keyword with the list l of monthly records
DetailedResponse(l) ==
    Response(<< Task(SuccessCode, "Ok.", TRUE,
                     << [has_items |-> TRUE,
                         items |-> << Item("shoes", TRUE, l, TRUE, 100) >>] >>) >>)

\* several tasks and keywords
BatchResponse(shape, its) == Response(BuildTasks(shape, its))

\* no response at all, and a response without 'tasks'
RejectedResponses ==
    { NoResponse, [present |-> TRUE, has_tasks |-> FALSE, tasks |-> <<>>] }

GeoSettings == {<<2250, "fr">>, <<2158, "zh">>}

----------------------------------------------------------------------------
(* main of the GEO page, the fetch button (6_GEO_Search_Volume.py:274-357) *)
(* and make_dataforseo_request (lines 15-57).  The batch of keywords is    *)
(* held as its length.                                                     *)

\* most clicks on the button
MaxClicks == 2

KeywordLimit == 1000
HttpOk == 200

\* the language name of the request, lines 25-31
request_language_name(code) ==
    IF code = "en" THEN "English"
    ELSE CASE code = "fr" -> "French"
           [] code = "de" -> "German"
           [] code = "es" -> "Spanish"
           [] code = "it" -> "Italian"
           [] code = "ja" -> "Japanese"
           [] OTHER -> "English"

NoPost == [sent |-> FALSE, language_name |-> "", location_code |-> 0,
           keywords |-> 0]
NoHttp == [kind |-> "none", status_code |-> 0, json_ok |-> FALSE,
           json |-> NoResponse]
\* None
NoData == [none |-> TRUE, json |-> NoResponse]

LimitError ==
    [status |-> 0, message |-> "Maximum 1000 keywords per request."]
RequestFailedError == [status |-> 0, message |-> "Request failed"]
ApiError(code) == [status |-> code, message |-> "API Error"]
NoDataError == [status |-> 0, message |-> "No data received from API."]

\* a limit that turns away a batch of exactly 1000 keywords too
over_limit_inclusive(n) == n >= KeywordLimit

\* line 286
over_limit(n) == n > KeywordLimit

\* a request sent again after a transport exception
post_attempts_retry(outcome) == IF outcome.kind = "exception" THEN 2 ELSE 1

\* the calls of requests.post in one invocation: lines 43-47, outside any loop
post_attempts(outcome) == 1

\* a guard that lets every return value through
always_truthy(response) == TRUE

\* line 294: if response_data
truthy(response) == ~response.none /\ response.json.present

\* lines 41-57: what make_dataforseo_request returns and reports
request_return(outcome) ==
    IF outcome.kind = "exception"
    THEN [ret |-> NoData, error |-> <<RequestFailedError>>]
    ELSE IF outcome.status_code = HttpOk
    THEN IF outcome.json_ok
         THEN [ret |-> [none |-> FALSE, json |-> outcome.json], error |-> <<>>]
         \* response.json() raises, caught by except Exception
         ELSE [ret |-> NoData, error |-> <<RequestFailedError>>]
    ELSE [ret |-> NoData, error |-> <<ApiError(outcome.status_code)>>]

FetchIdle ==
    /\ keywords = 0
    /\ fpc = "off"
    /\ clicks = 0
    /\ calls = 0
    /\ posts = 0
    /\ post_data = NoPost
    /\ http = NoHttp
    /\ fetched = NoData
    /\ process_calls = 0
    /\ export_calls = 0
    /\ download = FALSE

\* lines 274 and 285-288: the button is clicked, the script runs again and
\* draws the page afresh
FetchClick ==
    /\ fpc = "idle"
    /\ keywords > 0
    /\ clicks < MaxClicks
    /\ clicks' = clicks + 1
    /\ IF over_limit(keywords)
       THEN errors' = <<LimitError>> /\ fpc' = "idle"
       ELSE errors' = <<>> /\ fpc' = "request"
    /\ http' = NoHttp
    /\ fetched' = NoData
    /\ process_calls' = 0
    /\ export_calls' = 0
    /\ download' = FALSE
    /\ response_data' = NoResponse
    /\ gpc' = "off"
    /\ tix' = 0
    /\ results' = <<>>
    /\ df' = NoFrame
    /\ UNCHANGED << keywords, calls, posts, post_data, location_code,
                    language_code, run, first_df, validateVars, sitemapVars,
                    sortVars, semrushVars >>

\* lines 290-292 with make_dataforseo_request, lines 15-57
MakeRequest(outcome) ==
    /\ fpc = "request"
    /\ calls' = calls + 1
    /\ posts' = posts + post_attempts(outcome)
    /\ post_data' = [sent |-> TRUE,
                     language_name |-> request_language_name(language_code),
                     location_code |-> location_code,
                     keywords |-> keywords]
    /\ http' = outcome
    /\ fetched' = request_return(outcome).ret
    /\ errors' = errors \o request_return(outcome).error
    /\ fpc' = "returned"
    /\ UNCHANGED << keywords, clicks, process_calls, export_calls, download,
                    response_data, location_code, language_code, gpc, tix,
                    results, df, run, first_df, validateVars, sitemapVars,
                    sortVars, semrushVars >>

\* lines 294-299: process_api_response is called on a truthy return value
FetchProcess ==
    /\ fpc = "returned"
    /\ IF truthy(fetched)
       THEN /\ process_calls' = process_calls + 1
            /\ response_data' = fetched.json
            /\ gpc' = "start"
            /\ run' = 1
            /\ fpc' = "processing"
       ELSE /\ fpc' = "idle"
            /\ UNCHANGED << process_calls, response_data, gpc, run >>
    /\ UNCHANGED << keywords, clicks, calls, posts, post_data, http, fetched,
                    export_calls, download, location_code, language_code,
                    tix, results, errors, df, first_df, validateVars,
                    sitemapVars, sortVars, semrushVars >>

\* lines 301-357: the report is shown and exported, or an error is shown
FetchExport ==
    /\ fpc = "processing"
    /\ gpc = "done"
    /\ IF ~df.none
       THEN /\ export_calls' = export_calls + 1
            /\ download' = TRUE
            /\ UNCHANGED errors
       ELSE /\ errors' = Append(errors, NoDataError)
            /\ UNCHANGED << export_calls, download >>
    /\ fpc' = "idle"
    /\ UNCHANGED << keywords, clicks, calls, posts, post_data, http, fetched,
                    process_calls, response_data, location_code,
                    language_code, gpc, tix, results, df, run, first_df,
                    validateVars, sitemapVars, sortVars, semrushVars >>

\* the sizes of the batches
KeywordCounts == {0, 1, KeywordLimit, KeywordLimit + 1}

ErrorStatuses == {401, 500}

SampleItem ==
    Item("A", TRUE, << MonthlyRecord(2024, 1, 100), MonthlyRecord(2024, 2, 0) >>,
         TRUE, 0)

\* the JSON bodies of a 200 response: null, no 'tasks', no task, a failed
\* task, a successful task, both
FetchBodies ==
    { NoResponse,
      [present |-> TRUE, has_tasks |-> FALSE, tasks |-> <<>>],
      Response(<<>>),
      BatchResponse(<< [kind |-> "fail", n |-> 0] >>, <<>>),
      BatchResponse(<< [kind |-> "ok", n |-> 1] >>, <<SampleItem>>),
      BatchResponse(<< [kind |-> "fail", n |-> 0], [kind |-> "ok", n |-> 1] >>,
                    <<SampleItem>>) }

\* what requests.post can do: raise, or return a response
HttpOutcomes ==
    {[kind |-> "exception", status_code |-> 0, json_ok |-> FALSE,
      json |-> NoResponse]}
        \cup {[kind |-> "status", status_code |-> c, json_ok |-> FALSE,
               json |-> NoResponse] : c \in ErrorStatuses \cup {HttpOk}}
        \cup {[kind |-> "status", status_code |-> HttpOk, json_ok |-> TRUE,
               json |-> b] : b \in FetchBodies}

----------------------------------------------------------------------------
(* The Semrush page, upload handling (4_semrush_refine.py:64-115).  A      *)
(* sheet is held as the list of its column names.                          *)

NoSheet == [uploaded |-> FALSE, columns |-> <<>>]

SemrushIdle ==
    /\ sheet = NoSheet
    /\ spc = "off"
    /\ processed_columns = <<>>
    /\ process_data_calls = 0
    /\ semrush_export = FALSE
    /\ semrush_error = FALSE

Has(columns, name) == \E i \in 1..Len(columns) : columns[i] = name

index(columns, name) == CHOOSE i \in 1..Len(columns) : columns[i] = name

\* list.pop(i) and list.insert(i, x) with 1-based positions
pop(l, i) == SubSeq(l, 1, i - 1) \o SubSeq(l, i + 1, Len(l))
insert(l, i, x) ==
    IF i > Len(l) THEN Append(l, x)
    ELSE SubSeq(l, 1, i - 1) \o <<x>> \o SubSeq(l, i, Len(l))

\* a test that asks for the two columns process_data reads
has_keyword_and_position(columns) ==
    Has(columns, "Keyword") /\ Has(columns, "Position")

\* line 71
has_required_columns(columns) ==
    Has(columns, "Keyword") /\ Has(columns, "Position")
        /\ Has(columns, "Search Volume")

\* lines 30-39: the columns of the frame process_data returns
process_data_columns(columns) ==
    LET c0 == Append(Append(columns, "Category"), "Marque/Hors Marque")
    IN  IF Has(columns, "Search Volume")
        THEN LET c1 == insert(pop(c0, index(c0, "Category")),
                              index(pop(c0, index(c0, "Category")),
                                    "Search Volume") + 1,
                              "Category")
                 c2 == insert(pop(c1, index(c1, "Marque/Hors Marque")),
                              index(pop(c1, index(c1, "Marque/Hors Marque")),
                                    "Search Volume") + 2,
                              "Marque/Hors Marque")
             IN  c2
        ELSE c0

\* lines 66-71 and 114-115: the file is read and its columns are tested
SemrushUpload ==
    /\ spc = "upload"
    /\ IF ~sheet.uploaded
       THEN spc' = "end" /\ UNCHANGED semrush_error
       ELSE IF has_required_columns(sheet.columns)
       THEN spc' = "process" /\ UNCHANGED semrush_error
       ELSE spc' = "end" /\ semrush_error' = TRUE
    /\ UNCHANGED << sheet, processed_columns, process_data_calls,
                    semrush_export, validateVars, sitemapVars, geoVars,
                    sortVars, fetchVars >>

\* line 81: process_data(df, regex_pattern)
SemrushProcess ==
    /\ spc = "process"
    /\ process_data_calls' = process_data_calls + 1
    /\ processed_columns' = process_data_columns(sheet.columns)
    /\ spc' = "export"
    /\ UNCHANGED << sheet, semrush_export, semrush_error, validateVars,
                    sitemapVars, geoVars, sortVars, fetchVars >>

\* lines 108-113: the download button with export_to_excel's bytes
SemrushExport ==
    /\ spc = "export"
    /\ semrush_export' = TRUE
    /\ spc' = "end"
    /\ UNCHANGED << sheet, processed_columns, process_data_calls,
                    semrush_error, validateVars, sitemapVars, geoVars,
                    sortVars, fetchVars >>

ColumnNames == {"Keyword", "Position", "Search Volume", "URL"}

\* the sheets: no upload, and every list of different column names
Sheets ==
    {NoSheet} \cup
    {[uploaded |-> TRUE, columns |-> c] :
        c \in {q \in SeqsUpTo(ColumnNames, Cardinality(ColumnNames)) :
                  \A i, j \in 1..Len(q) : i # j => q[i] # q[j]}}

----------------------------------------------------------------------------
(* Specifications.                                                         *)

InitValidate ==
    /\ \/ \E s \in ValidateTexts : v_url = [t |-> "str", s |-> s]
       \/ v_url \in ValidateOtherInputs
    /\ v_ret = NoReturn
    /\ SitemapIdle
    /\ GeoIdle
    /\ SortIdle
    /\ FetchIdle
    /\ SemrushIdle

InitSitemap ==
    /\ rows \in SeqsUpTo(RowValues, MaxRows)
    /\ \E st \in SitemapSettings : changefreq = st[1] /\ priority = st[2]
    /\ clock = 0
    /\ pc = "start"
    /\ idx = 0
    /\ current_date = ""
    /\ valid_urls = 0
    /\ skipped_urls = 0
    /\ invalid_urls = <<>>
    /\ urlset = NoElement
    /\ xml_string = NoXml
    /\ srun = 1
    /\ first_sitemap = NoOutcome
    /\ ValidateIdle
    /\ GeoIdle
    /\ SortIdle
    /\ FetchIdle
    /\ SemrushIdle

InitGeo ==
    /\ \/ \E l \in SeqsUpTo(MonthlyRecords, MaxRecords) :
            response_data = DetailedResponse(l)
       \/ \E sh \in Shapes : \E its \in [1..TotalItems(sh) -> BatchItems] :
            response_data = BatchResponse(sh, its)
       \/ response_data \in RejectedResponses
    /\ \E st \in GeoSettings : location_code = st[1] /\ language_code = st[2]
    /\ gpc = "start"
    /\ tix = 0
    /\ results = <<>>
    /\ errors = <<>>
    /\ df = NoFrame
    /\ run = 1
    /\ first_df = NoFrame
    /\ ValidateIdle
    /\ SitemapIdle
    /\ SortIdle
    /\ FetchIdle
    /\ SemrushIdle

\* sorted(...) called on any list of monthly records
InitSort ==
    /\ sort_in \in SeqsUpTo(MonthlyRecords, MaxRecords)
    /\ sort_out = NoSort
    /\ ValidateIdle
    /\ SitemapIdle
    /\ GeoIdle
    /\ FetchIdle
    /\ SemrushIdle

\* the GEO page with its keywords entered and its settings chosen
InitFetch ==
    /\ keywords \in KeywordCounts
    /\ fpc = "idle"
    /\ clicks = 0
    /\ calls = 0
    /\ posts = 0
    /\ post_data = NoPost
    /\ http = NoHttp
    /\ fetched = NoData
    /\ process_calls = 0
    /\ export_calls = 0
    /\ download = FALSE
    /\ response_data = NoResponse
    /\ \E st \in GeoSettings : location_code = st[1] /\ language_code = st[2]
    /\ gpc = "off"
    /\ tix = 0
    /\ results = <<>>
    /\ errors = <<>>
    /\ df = NoFrame
    /\ run = 0
    /\ first_df = NoFrame
    /\ ValidateIdle
    /\ SitemapIdle
    /\ SortIdle
    /\ SemrushIdle

\* the Semrush page with a sheet chosen, or none
InitSemrush ==
    /\ sheet \in Sheets
    /\ spc = "upload"
    /\ processed_columns = <<>>
    /\ process_data_calls = 0
    /\ semrush_export = FALSE
    /\ semrush_error = FALSE
    /\ ValidateIdle
    /\ SitemapIdle
    /\ GeoIdle
    /\ SortIdle
    /\ FetchIdle

InitRequired == InitGeo \/ InitSemrush

InitTwice == InitSitemap \/ InitGeo

NextValidate == CallValidate

NextSemrush == SemrushUpload \/ SemrushProcess \/ SemrushExport

NextFetch ==
    \/ FetchClick
    \/ \E outcome \in HttpOutcomes : MakeRequest(outcome)
    \/ FetchProcess
    \/ GeoStart
    \/ GeoTask
    \/ GeoReturn
    \/ FetchExport

NextSort == CallSorted

NextSitemap == SitemapStart \/ SitemapRow \/ SitemapWrite \/ Tick

NextGeo == GeoStart \/ GeoTask \/ GeoReturn

NextGeoRerun == NextGeo \/ GeoRerun

NextSitemapRerun == NextSitemap \/ SitemapRerun

\* both functions, each called twice
NextTwice == NextSitemapRerun \/ NextGeoRerun

\* the two places that test for a required field
NextRequired == NextGeo \/ NextSemrush

SpecValidate == InitValidate /\ [][NextValidate]_vars

SpecSitemap == InitSitemap /\ [][NextSitemap]_vars

SpecGeo == InitGeo /\ [][NextGeo]_vars

SpecGeoRerun == InitGeo /\ [][NextGeoRerun]_vars

SpecSort == InitSort /\ [][NextSort]_vars

SpecFetch == InitFetch /\ [][NextFetch]_vars

SpecRequired == InitRequired /\ [][NextRequired]_vars

SpecTwice == InitTwice /\ [][NextTwice]_vars

Init ==
    InitValidate \/ InitSitemap \/ InitGeo \/ InitSort \/ InitFetch
        \/ InitSemrush

Next ==
    NextValidate \/ NextSitemapRerun \/ NextGeoRerun \/ NextSort \/ NextFetch
        \/ NextSemrush

Spec == Init /\ [][Next]_vars

----------------------------------------------------------------------------
(* Properties of validate_url and create_sitemap_from_dataframe.           *)

\* s[a..b] is s without its leading and trailing whitespace
TrimBounds(s, a, b) ==
    /\ a <= b + 1
    /\ \A k \in 1..(a - 1) : s[k] \in Whitespace
    /\ \A k \in (b + 1)..Len(s) : s[k] \in Whitespace
    /\ a <= b => (s[a] \notin Whitespace /\ s[b] \notin Whitespace)

\* t is s without its leading and trailing whitespace
IsTrimOf(t, s) ==
    \E a \in 1..(Len(s) + 1), b \in 0..Len(s) :
        TrimBounds(s, a, b) /\ t = SubSeq(s, a, b)

NotTab(c) == c \notin {"\t", "\r", "\n"}

\* t reads scheme "://" authority, then nothing or a delimiter: the scheme
\* starts with a letter, the authority is not empty and its brackets pair up
AbsoluteUri(t) ==
    LET u == SelectSeq(t, NotTab) IN
    \E i \in 2..Len(u), j \in 1..Len(u) :
        /\ u[i] = ":"
        /\ u[1] \in Letters
        /\ \A k \in 1..(i - 1) : u[k] \in Letters \cup Digits \cup {"+", "-", "."}
        /\ i + 3 <= j
        /\ u[i + 1] = "/" /\ u[i + 2] = "/"
        /\ \A k \in (i + 3)..j : u[k] \notin {"/", "?", "#"}
        /\ (j = Len(u) \/ u[j + 1] \in {"/", "?", "#"})
        /\ (\E k \in (i + 3)..j : u[k] = "[") <=> (\E k \in (i + 3)..j : u[k] = "]")

\* the cell is text whose trimmed form is a non-empty absolute URI
WellFormedCell(cell) ==
    /\ cell.t = "str"
    /\ \E a \in 1..Len(cell.s), b \in 1..Len(cell.s) :
          /\ a <= b
          /\ TrimBounds(cell.s, a, b)
          /\ AbsoluteUri(SubSeq(cell.s, a, b))

\* C1: validate_url returns true exactly for text that, trimmed, is not empty
\* and parses with a non-empty scheme and a non-empty authority; for an
\* absent or non-text value it returns false, and it never raises.
C1_ValidateContract ==
    v_ret.called =>
        /\ ~v_ret.raised
        /\ v_ret.val <=> WellFormedCell(v_url)

\* C1 happens: a text that only becomes a URI with an authority once trimmed
\* was accepted, whitespace on both sides
C1_Witness ==
    /\ v_ret.called
    /\ v_ret.val
    /\ v_url.t = "str"
    /\ Len(v_url.s) > 2
    /\ v_url.s[1] = " "
    /\ v_url.s[Len(v_url.s)] = " "

\* the rows of the column that validate_url accepts
ValidRowIndexes == {i \in 1..Len(rows) : WellFormedCell(rows[i])}

\* the k-th smallest index of the set S
NthIndex(S, k) == CHOOSE i \in S : Cardinality({j \in S : j < i}) = k - 1

DocumentLocs == [k \in 1..Len(urlset.children) |-> urlset.children[k].children[1].text]

\* C2: the loc values of the finished document are the trimmed values of the
\* rows that pass validation, one per such row, in the order of the input
\* (nothing re-sorted, duplicates kept).
C2_LocsAreValidRowsInOrder ==
    pc = "done" =>
        /\ Len(DocumentLocs) = Cardinality(ValidRowIndexes)
        /\ \A k \in 1..Len(DocumentLocs) :
              IsTrimOf(DocumentLocs[k], rows[NthIndex(ValidRowIndexes, k)].s)
        /\ xml_string.written
        /\ Len(xml_string.root.children) = Len(DocumentLocs)

\* C2 happens: the same URL twice (once padded) around an invalid row, both
\* kept, in input order
C2_Witness ==
    /\ pc = "done"
    /\ Len(rows) = 3
    /\ rows[1].s = U_B /\ rows[1].t = "str"
    /\ rows[2].s = U_A_PAD /\ rows[2].t = "str"
    /\ rows[3].s = U_A /\ rows[3].t = "str"
    /\ DocumentLocs = <<U_B, U_A, U_A>>

\* the text rows that are neither absent nor blank and fail validation, and
\* the numeric rows: what the original statement wants recorded
NonBlankInvalidIndexes ==
    {i \in 1..Len(rows) :
        /\ rows[i].t # "nan"
        /\ ~(rows[i].t = "str" /\ IsTrimOf(<<>>, rows[i].s))
        /\ ~WellFormedCell(rows[i])}

\* C3 as stated: invalid_urls holds exactly the skipped rows that are not
\* blank: absent and blank rows are never recorded, every other invalid row is.
C3_Original ==
    pc = "done" =>
        /\ Len(invalid_urls) = Cardinality(NonBlankInvalidIndexes)
        /\ \A k \in 1..Len(invalid_urls) :
              /\ rows[NthIndex(NonBlankInvalidIndexes, k)].t = "str"
              /\ invalid_urls[k] = rows[NthIndex(NonBlankInvalidIndexes, k)].s

\* the text rows that fail validation, blank ones included
InvalidTextIndexes ==
    {i \in 1..Len(rows) : rows[i].t = "str" /\ ~WellFormedCell(rows[i])}

\* C3 amended: invalid_urls holds exactly the text rows that fail validation,
\* untrimmed and in input order, blank text included; absent and non-text
\* rows are counted in skipped_urls and never recorded.
C3_InvalidSamplesAreInvalidText ==
    pc = "done" =>
        /\ Len(invalid_urls) = Cardinality(InvalidTextIndexes)
        /\ \A k \in 1..Len(invalid_urls) :
              invalid_urls[k] = rows[NthIndex(InvalidTextIndexes, k)].s
        /\ skipped_urls = Len(invalid_urls)
              + Cardinality({i \in 1..Len(rows) : rows[i].t # "str"})

\* C3 happens: a blank text was recorded while a number and an empty cell
\* were only counted
C3_Witness ==
    /\ pc = "done"
    /\ Len(rows) = 3
    /\ rows[1].t = "num"
    /\ rows[2].t = "str" /\ rows[2].s = U_BLANK
    /\ rows[3].t = "nan"
    /\ invalid_urls = <<U_BLANK>>
    /\ skipped_urls = 3

\* C4: at every point of a call, every <url> entry carries the one lastmod
\* captured before the loop, whatever the clock has done since.
C4_SingleLastmod ==
    pc \in {"loop", "done"} =>
        \A k \in 1..Len(urlset.children) :
            /\ urlset.children[k].children[2].tag = "lastmod"
            /\ urlset.children[k].children[2].text = current_date

\* C4 happens: two entries were produced and the clock no longer reads what
\* was captured
C4_Witness ==
    /\ pc = "done"
    /\ Len(urlset.children) >= 2
    /\ isoformat(clock) # current_date

\* C5: no row aborts the call: it never ends in an exception, every row it
\* has passed is counted as valid or skipped, and what it returns after the
\* last row is a urlset document with one url entry per valid row, none when
\* valid_urls is 0.
C5_AlwaysADocument ==
    /\ pc # "raised"
    /\ pc = "loop" =>
          /\ idx \in 1..(Len(rows) + 1)
          /\ valid_urls + skipped_urls = idx - 1
    /\ pc = "done" =>
          /\ idx = Len(rows) + 1
          /\ xml_string.written
          /\ xml_string.root.tag = "urlset"
          /\ Len(xml_string.root.children) = valid_urls
          /\ valid_urls + skipped_urls = Len(rows)

\* C5 happens: a column of a number, a text the URL parser rejects with an
\* exception and a blank gave a document without entries
C5_Witness ==
    /\ pc = "done"
    /\ Len(rows) = 3
    /\ rows[1].t = "num"
    /\ rows[2].t = "str" /\ rows[2].s = U_BRACKET
    /\ rows[3].t = "str" /\ rows[3].s = U_BLANK
    /\ valid_urls = 0
    /\ xml_string.root.children = <<>>

UrlLeafTags == <<"loc", "lastmod", "changefreq", "priority">>

\* the element is a url entry of four leaves loc, lastmod, changefreq,
\* priority in this order, the last two holding the values of the call
IsUrlEntry(u) ==
    /\ u.tag = "url"
    /\ Len(u.children) = 4
    /\ \A j \in 1..4 : u.children[j].tag = UrlLeafTags[j]
    /\ u.children[3].text = changefreq
    /\ u.children[4].text = priority

\* the element is a urlset root with the two namespace attributes
IsUrlsetRoot(e) ==
    /\ e.tag = "urlset"
    /\ Len(e.attrib) = 2
    /\ e.attrib[1] = <<"xmlns", "http://www.sitemaps.org/schemas/sitemap/0.9">>
    /\ e.attrib[2] = <<"xmlns:xhtml", "http://www.w3.org/1999/xhtml">>

\* C12: in the tree while it is built and in the written document, the root
\* is a urlset with the two namespace attributes and every url entry has
\* exactly the four children loc, lastmod, changefreq, priority in this
\* order, changefreq and priority equal to the values passed to the call.
C12_EntryShape ==
    /\ pc \in {"loop", "done"} =>
          /\ IsUrlsetRoot(urlset)
          /\ \A k \in 1..Len(urlset.children) : IsUrlEntry(urlset.children[k])
    /\ pc = "done" =>
          /\ IsUrlsetRoot(xml_string.root)
          /\ \A k \in 1..Len(xml_string.root.children) :
                IsUrlEntry(xml_string.root.children[k])

\* C12 happens: a document of two entries was written with the settings
\* daily and 0.5
C12_Witness ==
    /\ pc = "done"
    /\ changefreq = "daily"
    /\ priority = "0.5"
    /\ Len(xml_string.root.children) = 2
    /\ xml_string.root.children[2].children[3] = Leaf("changefreq", "daily")
    /\ xml_string.root.children[2].children[4] = Leaf("priority", "0.5")

\* the text an XML parser hands back for the character data it reads:
\* entities resolved, a carriage return (with the line feed after it, if
\* any) read as one line feed
RECURSIVE parsed_text(_)
parsed_text(text) ==
    LET n == Len(text)
        starts(p) == Len(p) <= n /\ SubSeq(text, 1, Len(p)) = p
        rest(k) == parsed_text(SubSeq(text, k + 1, n))
    IN  IF text = <<>> THEN <<>>
        ELSE IF starts(<<"&", "a", "m", "p", ";">>) THEN <<"&">> \o rest(5)
        ELSE IF starts(<<"&", "l", "t", ";">>) THEN <<"<">> \o rest(4)
        ELSE IF starts(<<"&", "g", "t", ";">>) THEN <<">">> \o rest(4)
        ELSE IF starts(<<"\r", "\n">>) THEN <<"\n">> \o rest(2)
        ELSE IF starts(<<"\r">>) THEN <<"\n">> \o rest(1)
        ELSE <<Head(text)>> \o rest(1)

\* the (loc, changefreq, priority) tuples read back from the written document
ParsedTuples ==
    [k \in 1..Len(xml_string.root.children) |->
        LET u == xml_string.root.children[k]
        IN  << parsed_text(u.children[1].text), u.children[3].text,
               u.children[4].text >>]

\* the tuples of the valid rows: the trimmed text and the settings of the call
ValidTuples ==
    [k \in 1..Cardinality(ValidRowIndexes) |->
        << strip(rows[NthIndex(ValidRowIndexes, k)].s), changefreq, priority >>]

\* C14 as stated: parsing the written document gives back exactly the
\* (loc, changefreq, priority) tuples of the valid rows, whatever characters
\* the URL text holds.
C14_Original ==
    pc = "done" => ParsedTuples = ValidTuples

\* what does hold: the round trip is exact for every valid row whose text
\* has no carriage return, escaped characters included
RoundTripWithoutCarriageReturn ==
    pc = "done" =>
        /\ Len(ParsedTuples) = Len(ValidTuples)
        /\ \A k \in 1..Len(ParsedTuples) :
              "\r" \notin SeqRange(ValidTuples[k][1])
                  => ParsedTuples[k] = ValidTuples[k]

\* C22: after each iteration of the loop, valid_urls + skipped_urls is the
\* number of rows processed so far, valid_urls is the number of url entries
\* and invalid_urls is no longer than skipped_urls; after the call the same
\* holds for all the rows and for the written document.
C22_CountersAddUp ==
    /\ pc = "loop" =>
          /\ valid_urls + skipped_urls = idx - 1
          /\ valid_urls = Len(urlset.children)
          /\ Len(invalid_urls) <= skipped_urls
    /\ pc = "done" =>
          /\ valid_urls + skipped_urls = Len(rows)
          /\ valid_urls = Len(urlset.children)
          /\ valid_urls = Len(xml_string.root.children)
          /\ Len(invalid_urls) <= skipped_urls

\* C22 happens: a valid row, a text without scheme and another valid row
\* gave two entries, one skipped row and one invalid sample
C22_Witness ==
    /\ pc = "done"
    /\ Len(rows) = 3
    /\ rows[1] = [t |-> "str", s |-> U_A]
    /\ rows[2] = [t |-> "str", s |-> U_NOSCHEME]
    /\ rows[3] = [t |-> "str", s |-> U_B]
    /\ valid_urls = 2
    /\ skipped_urls = 1
    /\ invalid_urls = <<U_NOSCHEME>>
    /\ DocumentLocs = <<U_A, U_B>>

----------------------------------------------------------------------------
(* Properties of process_api_response.                                     *)

\* the call went past its guard and returned
GeoReturned == gpc = "done" /\ response_data.present /\ response_data.has_tasks

RECURSIVE ItemsOfResult(_)
ItemsOfResult(result) ==
    IF result = <<>> THEN <<>>
    ELSE (IF Head(result).has_items THEN Head(result).items ELSE <<>>)
             \o ItemsOfResult(Tail(result))

\* the items of the tasks that report the success code, in response order
RECURSIVE SuccessfulItems(_)
SuccessfulItems(tasks) ==
    IF tasks = <<>> THEN <<>>
    ELSE (IF Head(tasks).status_code = SuccessCode /\ Head(tasks).has_result
          THEN ItemsOfResult(Head(tasks).result) ELSE <<>>)
             \o SuccessfulItems(Tail(tasks))

RowItems == SuccessfulItems(response_data.tasks)

\* the monthly records of the item behind row k
RowRecords(k) ==
    IF RowItems[k].has_monthly THEN RowItems[k].ai_monthly_searches ELSE <<>>

ColumnIndex(col) == CHOOSE c \in 1..Len(df.columns) : df.columns[c] = col

FrameValue(k, col) == df.data[k][ColumnIndex(col)]

Later(a, b) == a.year > b.year \/ (a.year = b.year /\ a.month > b.month)

\* the most recent record, the first of them in the input among equals
LatestIndex(recs) ==
    CHOOSE i \in 1..Len(recs) :
        \A j \in 1..Len(recs) :
            /\ ~Later(recs[j], recs[i])
            /\ j < i => Later(recs[i], recs[j])

\* the least recent record, the last of them in the input among equals
OldestIndex(recs) ==
    CHOOSE i \in 1..Len(recs) :
        \A j \in 1..Len(recs) :
            /\ ~Later(recs[i], recs[j])
            /\ j > i => Later(recs[j], recs[i])

Abs(x) == IF x < 0 THEN -x ELSE x

\* C6: 'Change %' of every row is ((latest - oldest) / oldest) * 100 to the
\* nearest hundredth when the item has two monthly records or more and the
\* oldest volume is not zero, and 0 when the oldest volume is zero or the
\* item has fewer than two monthly records.
C6_ChangePercent ==
    (GeoReturned /\ ~df.none) =>
        /\ Len(df.data) = Len(RowItems)
        /\ \A k \in 1..Len(df.data) :
              LET recs == RowRecords(k)
                  c == FrameValue(k, "Change %").val
              IN  IF Len(recs) >= 2
                  THEN LET l == recs[LatestIndex(recs)].ai_search_volume
                           o == recs[OldestIndex(recs)].ai_search_volume
                       IN  IF o # 0
                           THEN 2 * Abs(c * o - (l - o) * 10000) <= o
                           ELSE c = 0
                  ELSE c = 0

\* C6 happens: (2024,1,100), (2024,2,150) gave 50.0
C6_Witness ==
    /\ GeoReturned
    /\ ~df.none
    /\ Len(df.data) = 1
    /\ RowRecords(1) = << MonthlyRecord(2024, 1, 100), MonthlyRecord(2024, 2, 150) >>
    /\ FrameValue(1, "Change %").val = 5000

\* C7: 'Latest Month Volume' of every row is the volume of the item's record
\* with the greatest (year, month) when it has monthly records, and the
\* item's scalar volume (0 when it has none) when the monthly list is absent
\* or empty.
C7_LatestMonthVolume ==
    (GeoReturned /\ ~df.none) =>
        /\ Len(df.data) = Len(RowItems)
        /\ \A k \in 1..Len(df.data) :
              LET recs == RowRecords(k)
                  v == FrameValue(k, "Latest Month Volume")
              IN  /\ ~v.nan
                  /\ v.val = IF Len(recs) >= 1
                             THEN recs[LatestIndex(recs)].ai_search_volume
                             ELSE IF RowItems[k].has_volume
                                  THEN RowItems[k].ai_search_volume
                                  ELSE 0

\* C7 happens: the most recent record came last in the input and its volume,
\* not the first record's, was reported
C7_Witness ==
    /\ GeoReturned
    /\ ~df.none
    /\ Len(df.data) = 1
    /\ Len(RowRecords(1)) = 3
    /\ LatestIndex(RowRecords(1)) = 3
    /\ RowRecords(1)[3].ai_search_volume # RowRecords(1)[1].ai_search_volume
    /\ FrameValue(1, "Latest Month Volume").val = RowRecords(1)[3].ai_search_volume

FixedColumns == {"Keyword", "Language", "Country", "Latest Month Volume", "Change %"}

\* the label MM/YYYY of a (year, month)
MonthLabel(ym) ==
    CASE ym = <<2023, 12>> -> "12/2023"
      [] ym = <<2024, 1>> -> "01/2024"
      [] ym = <<2024, 2>> -> "02/2024"
      [] ym = <<2024, 3>> -> "03/2024"

\* the (year, month) a label reads as
LabelYearMonth(label) == CHOOSE ym \in YearMonths : MonthLabel(ym) = label

MonthColumns == SelectSeq(df.columns, LAMBDA col : col \notin FixedColumns)

\* C8 as stated: the month-label columns are the union of the keywords' month
\* labels, most recent first.
C8_Original ==
    (GeoReturned /\ ~df.none) =>
        /\ \A c \in 1..Len(MonthColumns) :
              \E k \in 1..Len(RowItems) : \E i \in 1..Len(RowRecords(k)) :
                  MonthLabel(<<RowRecords(k)[i].year, RowRecords(k)[i].month>>)
                      = MonthColumns[c]
        /\ \A k \in 1..Len(RowItems) : \A i \in 1..Len(RowRecords(k)) :
              \E c \in 1..Len(MonthColumns) :
                  MonthLabel(<<RowRecords(k)[i].year, RowRecords(k)[i].month>>)
                      = MonthColumns[c]
        /\ \A a, b \in 1..Len(MonthColumns) :
              a < b =>
                  LET ya == LabelYearMonth(MonthColumns[a])
                      yb == LabelYearMonth(MonthColumns[b])
                  IN  ya[1] > yb[1] \/ (ya[1] = yb[1] /\ ya[2] > yb[2])

\* C9: under a month-label column, a row's cell is empty exactly when the
\* keyword has no monthly record of that month, and a filled cell holds the
\* volume of a record of that month, 0 included.
C9_EmptyIffNotObserved ==
    (GeoReturned /\ ~df.none) =>
        \A k \in 1..Len(df.data) : \A c \in 1..Len(df.columns) :
            df.columns[c] \notin FixedColumns =>
                LET recs == RowRecords(k)
                    observed == {i \in 1..Len(recs) :
                                    MonthLabel(<<recs[i].year, recs[i].month>>)
                                        = df.columns[c]}
                IN  /\ df.data[k][c].nan <=> observed = {}
                    /\ ~df.data[k][c].nan =>
                          \E i \in observed :
                              df.data[k][c].val = recs[i].ai_search_volume

\* C9 happens: keyword A, B in one table: A's observed 0 of 02/2024 is kept
\* and A's cell for 03/2024 is empty
C9_Witness ==
    /\ GeoReturned
    /\ ~df.none
    /\ Len(df.data) = 2
    /\ FrameValue(1, "Keyword").val = "A"
    /\ FrameValue(2, "Keyword").val = "B"
    /\ FrameValue(1, "02/2024") = [nan |-> FALSE, val |-> 0]
    /\ FrameValue(1, "03/2024").nan
    /\ FrameValue(2, "01/2024").nan

FailedTasks ==
    {j \in 1..Len(response_data.tasks) :
        response_data.tasks[j].status_code # SuccessCode}

\* C10: an error is reported for every task whose status code is not the
\* success code (one each), such a task gives no row, and every item of every
\* successful task gives its row, in response order.
C10_FailedTasksReportedOthersKept ==
    GeoReturned =>
        /\ Cardinality({e \in 1..Len(errors) : errors[e].status # SuccessCode})
              = Cardinality(FailedTasks)
        /\ \A j \in FailedTasks :
              \E e \in 1..Len(errors) :
                  /\ errors[e].status = response_data.tasks[j].status_code
                  /\ errors[e].message = response_data.tasks[j].status_message
        /\ IF df.none THEN RowItems = <<>>
           ELSE /\ Len(df.data) = Len(RowItems)
                /\ \A k \in 1..Len(df.data) :
                      FrameValue(k, "Keyword").val = RowItems[k].keyword

\* C10 happens: a failed task that carried an item came before a successful
\* one: one error, and the one row of the successful task
C10_Witness ==
    /\ GeoReturned
    /\ Len(response_data.tasks) = 2
    /\ response_data.tasks[1].status_code = 40501
    /\ response_data.tasks[1].has_result
    /\ response_data.tasks[2].status_code = SuccessCode
    /\ Len(errors) = 1
    /\ ~df.none
    /\ Len(df.data) = 1

FixedColumnOrder ==
    <<"Keyword", "Language", "Country", "Latest Month Volume", "Change %">>

\* C11: the columns of every report start with Keyword, Language, Country,
\* Latest Month Volume, Change % in that order, and every month-label column
\* comes after the five, also when only some items have monthly records.
C11_FixedColumnsFirst ==
    (GeoReturned /\ ~df.none) =>
        /\ Len(df.columns) >= 5
        /\ SubSeq(df.columns, 1, 5) = FixedColumnOrder
        /\ \A c \in 6..Len(df.columns) : df.columns[c] \notin FixedColumns
        /\ \A k \in 1..Len(RowItems) : \A i \in 1..Len(RowRecords(k)) :
              \E c \in 6..Len(df.columns) :
                  df.columns[c]
                      = MonthLabel(<<RowRecords(k)[i].year, RowRecords(k)[i].month>>)

\* C11 happens: a keyword with monthly records came first, one without any
\* second, and the report has month columns
C11_Witness ==
    /\ GeoReturned
    /\ ~df.none
    /\ Len(df.data) = 2
    /\ RowRecords(1) # <<>>
    /\ RowRecords(2) = <<>>
    /\ Len(df.columns) > 5

\* C13: a second call of process_api_response on the same response, location
\* code and language code returns a report identical to the first: same rows
\* in the same order, same columns in the same order, same values.
C13_SameReportTwice ==
    (gpc = "done" /\ run = 2) => df = first_df

\* C13 happens: the second call returned a report of two rows with month
\* columns, after a first call that returned a report too
C13_Witness ==
    /\ gpc = "done"
    /\ run = 2
    /\ ~df.none
    /\ Len(df.data) = 2
    /\ Len(df.columns) > 5
    /\ ~first_df.none

SameMonth(a, b) == a.year = b.year /\ a.month = b.month

\* the month-label entries of the row dict of item k, in the row's order
MonthEntries(k) == SelectSeq(results[k], LAMBDA e : e[1] \notin FixedColumns)

RecordLabel(rec) == MonthLabel(<<rec.year, rec.month>>)

\* C20 as stated: the row of every item holds one month-label entry per
\* monthly record, keyed MM/YYYY, with that record's volume: as many entries
\* as records, no volume lost.
C20_Original ==
    GeoReturned =>
        /\ Len(results) = Len(RowItems)
        /\ \A k \in 1..Len(results) :
              LET recs == RowRecords(k)
                  entries == MonthEntries(k)
              IN  /\ Len(entries) = Len(recs)
                  /\ \A i \in 1..Len(recs) :
                        \E e \in 1..Len(entries) :
                            entries[e] = << RecordLabel(recs[i]),
                                            recs[i].ai_search_volume >>

\* the last record of the month of recs[i] in the input
LastOfMonth(recs, i) ==
    CHOOSE j \in i..Len(recs) :
        /\ SameMonth(recs[j], recs[i])
        /\ \A h \in (j + 1)..Len(recs) : ~SameMonth(recs[h], recs[i])

\* C20 amended: the row of every item holds one month-label entry per
\* distinct (year, month) of its monthly records, keyed MM/YYYY, most recent
\* first; its value is the volume of the last record of that month in the
\* input.  When the months of the item are all different, this is one entry
\* per record with that record's volume.
C20_OneEntryPerMonth ==
    GeoReturned =>
        /\ Len(results) = Len(RowItems)
        /\ \A k \in 1..Len(results) :
              LET recs == RowRecords(k)
                  entries == MonthEntries(k)
              IN  /\ Len(entries)
                        = Cardinality({<<recs[i].year, recs[i].month>> :
                                          i \in 1..Len(recs)})
                  /\ \A i \in 1..Len(recs) :
                        \E e \in 1..Len(entries) :
                            entries[e]
                                = << RecordLabel(recs[i]),
                                     recs[LastOfMonth(recs, i)].ai_search_volume >>
                  /\ \A a, b \in 1..Len(entries) :
                        a < b => LET ya == LabelYearMonth(entries[a][1])
                                     yb == LabelYearMonth(entries[b][1])
                                 IN  ya[1] > yb[1] \/ (ya[1] = yb[1] /\ ya[2] > yb[2])

\* C20 happens: three records, two of them of 01/2024, gave two entries, the
\* one of 01/2024 with the volume of the later record
C20_Witness ==
    /\ GeoReturned
    /\ Len(results) = 1
    /\ RowRecords(1) = << MonthlyRecord(2024, 1, 100), MonthlyRecord(2024, 2, 0),
                          MonthlyRecord(2024, 1, 150) >>
    /\ MonthEntries(1) = << <<"02/2024", 0>>, <<"01/2024", 150>> >>

\* C23 as stated: for every item with a monthly record, 'Latest Month
\* Volume' of its row is the value the row holds under the month label of
\* the item's most recent (year, month), repeated months included.
C23_Original ==
    GeoReturned =>
        /\ Len(results) = Len(RowItems)
        /\ \A k \in 1..Len(results) :
              LET recs == RowRecords(k)
              IN  Len(recs) >= 1 =>
                      dict_get(results[k], "Latest Month Volume")
                          = dict_get(results[k],
                                     RecordLabel(recs[LatestIndex(recs)]))

\* what does hold: the two values agree for every item whose most recent
\* (year, month) occurs once among its records
LatestAgreesWhenMonthOccursOnce ==
    GeoReturned =>
        \A k \in 1..Len(results) :
            LET recs == RowRecords(k)
            IN  (/\ Len(recs) >= 1
                 /\ \A j \in 1..Len(recs) :
                       SameMonth(recs[j], recs[LatestIndex(recs)])
                           => j = LatestIndex(recs)) =>
                    dict_get(results[k], "Latest Month Volume")
                        = dict_get(results[k],
                                   RecordLabel(recs[LatestIndex(recs)]))

----------------------------------------------------------------------------
(* Properties of the per-keyword sort.                                     *)

\* C19: the sort returns the records it was given, most recent (year, month)
\* first, records of the same (year, month) in the order they had in the
\* input; it returns for every list, lists with repeated months included.
C19_StableDescendingSort ==
    sort_out.called =>
        LET out == sort_out.val
            n == Len(sort_in)
        IN  /\ Len(out) = n
            /\ \A i, j \in 1..n : i < j => ~key_lt(out[i], out[j])
            /\ \E p \in Permutations(1..n) :
                  /\ \A i \in 1..n : out[i] = sort_in[p[i]]
                  /\ \A i, j \in 1..n :
                        (i < j /\ SameMonth(out[i], out[j])) => p[i] < p[j]

\* C19 happens: two records of 01/2024 with different volumes around a
\* record of 02/2024 came back behind it, in their input order
C19_Witness ==
    /\ sort_out.called
    /\ sort_in = << MonthlyRecord(2024, 1, 100), MonthlyRecord(2024, 2, 0),
                    MonthlyRecord(2024, 1, 150) >>
    /\ sort_out.val = << MonthlyRecord(2024, 2, 0), MonthlyRecord(2024, 1, 100),
                         MonthlyRecord(2024, 1, 150) >>

----------------------------------------------------------------------------
(* Properties of the fetch button and make_dataforseo_request.             *)

\* C15: there are never more requests sent than invocations of
\* make_dataforseo_request, nor more invocations than clicks: an invocation
\* sends one request and returns, also after an HTTP error status or a
\* transport exception.
C15_AtMostOneRequest ==
    /\ posts <= calls
    /\ calls <= clicks
    /\ fpc \in {"returned", "processing"} => posts = clicks
    /\ (fpc = "idle" /\ http.kind # "none") => posts = clicks

\* C15 happens: the second click's request ended in a transport exception,
\* the run is over and two requests were sent for two clicks
C15_Witness ==
    /\ fpc = "idle"
    /\ http.kind = "exception"
    /\ clicks = 2
    /\ calls = 2
    /\ posts = 2

\* C16: a request is only ever sent for a batch of 1 to 1000 keywords and
\* carries the whole batch; with more than 1000 keywords a click reports the
\* limit error and gives no invocation, no request and no report; with 1 to
\* 1000 keywords every click sends its request.
C16_KeywordLimit ==
    /\ post_data.sent =>
          /\ post_data.keywords = keywords
          /\ keywords >= 1
          /\ keywords <= 1000
    /\ keywords > 1000 =>
          /\ calls = 0 /\ posts = 0 /\ ~post_data.sent
          /\ process_calls = 0 /\ export_calls = 0 /\ ~download
          /\ df.none
          /\ clicks > 0 => errors = <<LimitError>>
    /\ (keywords >= 1 /\ keywords <= 1000 /\ clicks > 0 /\ fpc # "request") =>
          /\ post_data.sent
          /\ posts = clicks

\* C16 happens: a batch of exactly 1000 keywords was sent whole and gave a
\* report
C16_Witness ==
    /\ keywords = 1000
    /\ post_data.sent
    /\ post_data.keywords = 1000
    /\ posts = 1
    /\ download

RequestFailed ==
    \/ http.kind = "exception"
    \/ (http.kind = "status" /\ http.status_code # 200)

\* C18: once the request of a run has failed (transport exception or a
\* status other than 200), make_dataforseo_request has reported one error
\* and returned no data, and for the rest of the run process_api_response
\* and export_to_excel are not invoked: no report, no download.
C18_FailedRequestEndsRun ==
    RequestFailed =>
        /\ fetched = NoData
        /\ Len(errors) = 1
        /\ errors[1] \in {RequestFailedError, ApiError(http.status_code)}
        /\ process_calls = 0
        /\ export_calls = 0
        /\ ~download
        /\ gpc = "off"
        /\ df.none
        /\ fpc \in {"returned", "idle"}

\* C18 happens: the run of the second click got a status 500 and is over
\* with one error and nothing else
C18_Witness ==
    /\ RequestFailed
    /\ http.status_code = 500
    /\ clicks = 2
    /\ fpc = "idle"
    /\ errors = <<ApiError(500)>>

----------------------------------------------------------------------------
(* Properties of the tests for required fields.                            *)

MissingRequired(columns) ==
    \E name \in {"Keyword", "Position", "Search Volume"} :
        \A i \in 1..Len(columns) : columns[i] # name

\* C17: process_api_response called on an absent response or one without
\* 'tasks' returns no report, having visited no task, built no row and
\* reported nothing; the Semrush page given a sheet that lacks Keyword,
\* Position or Search Volume never calls process_data, never offers the
\* export, and shows its error once the sheet is tested.
C17_RejectedWhole ==
    /\ (gpc \in {"tasks", "done"}
           /\ (~response_data.present \/ ~response_data.has_tasks)) =>
          /\ gpc = "done"
          /\ df = NoFrame
          /\ results = <<>>
          /\ errors = <<>>
          /\ tix = 0
    /\ (sheet.uploaded /\ MissingRequired(sheet.columns)) =>
          /\ process_data_calls = 0
          /\ processed_columns = <<>>
          /\ ~semrush_export
          /\ spc \in {"upload", "end"}
          /\ spc = "end" => semrush_error

\* C17 happens: a sheet with Keyword and Position but no Search Volume was
\* turned away with the error
C17_Witness ==
    /\ sheet.uploaded
    /\ sheet.columns = <<"Keyword", "Position">>
    /\ spc = "end"
    /\ semrush_error
    /\ process_data_calls = 0

----------------------------------------------------------------------------
(* Properties of calling a function twice.                                 *)

\* C21: no step of create_sitemap_from_dataframe or process_api_response
\* changes an argument (the rows, the settings, the response with the order
\* of every item's monthly records, the two codes), and a second call on the
\* same arguments returns what the first returned, whatever the first call
\* left behind (the sitemap's timestamps apart).
C21_InputsKeptNoCarryOver ==
    /\ [][/\ rows' = rows
          /\ changefreq' = changefreq
          /\ priority' = priority
          /\ response_data' = response_data
          /\ location_code' = location_code
          /\ language_code' = language_code]_vars
    /\ []((gpc = "done" /\ run = 2) => df = first_df)
    /\ []((pc = "done" /\ srun = 2) => sitemap_outcome = first_sitemap)

\* C21 happens: the second call of process_api_response returned a report
\* for an item whose monthly records are not in sorted order in the response
C21_Witness ==
    /\ gpc = "done"
    /\ run = 2
    /\ ~df.none
    /\ \E k \in 1..Len(RowItems) :
          /\ Len(RowRecords(k)) >= 2
          /\ RowRecords(k) # sorted_reverse(RowRecords(k))
============================================================================
